---- MODULE Spec2Model ----
(***************************************************************************)
(* Model of the Rocket.Chat notification callback (rocketchat.py).         *)
(*                                                                         *)
(* One CallbackModule instance is modelled together with the two things    *)
(* it talks to: the host that loads the plugin and calls its hooks, and    *)
(* the HTTP client open_url.  Init is the instance right after __init__;   *)
(* each action is one call the host makes on the instance.                 *)
(***************************************************************************)
EXTENDS Integers, Sequences, FiniteSets, TLC

(***************************************************************************)
(* Bounds of the model.                                                    *)
(***************************************************************************)
MaxEvents == 3          \* host calls of event hooks in one run
MaxSetOptions == 2      \* calls of set_options in one run
MaxCount == 1           \* largest value of a per-host counter

(***************************************************************************)
(* Values.                                                                 *)
(***************************************************************************)
None == "None"                      \* Python None
Unset == "<unset>"                  \* attribute not assigned yet
EmptyStr == ""
HookUrl == "https://hooks.example/x"
Urls == {None, EmptyStr, HookUrl}   \* what get_option('webhook_url') yields
Guids == {"a1b2c3"}                 \* uuid.uuid4().hex[:6]
HostOrder == <<"a", "b">>           \* host names, in lexicographic order
HostNames == {HostOrder[i] : i \in 1..Len(HostOrder)}
Counts == 0..MaxCount

VARIABLES
    HAS_PRETTYTABLE,   \* module flag: import prettytable succeeded
    disabled,          \* self.disabled (CallbackBase attribute)
    guid,              \* self.guid
    playbook_name,     \* self.playbook_name
    webhook_url,       \* self.webhook_url
    validate_certs,    \* self.validate_certs
    show_invocation,   \* self.show_invocation
    nSetOptions,       \* number of set_options calls so far
    event,             \* the last hook call of the host and its arguments
    hostLog,           \* names of the hooks the host has run, in call order
    sent,              \* one entry per send_msg call, in call order
    attachments,       \* argument of the last send_msg call
    data,              \* result of json.dumps in the last send_msg call
    posts,             \* number of open_url calls of the last call
    request,           \* the last open_url call and its result
    warnings,          \* per kind, number of _display.warning calls
    lastWarning,       \* text of the last _display.warning call
    exception          \* what the last hook call raised to the host

vars == <<HAS_PRETTYTABLE, disabled, guid, playbook_name, webhook_url,
          validate_certs, show_invocation, nSetOptions, event, hostLog,
          sent, attachments, data, posts, request, warnings, lastWarning,
          exception>>

configured == nSetOptions > 0

(***************************************************************************)
(* __init__: disabled is CallbackBase's class default (False) unless the   *)
(* prettytable import failed; guid is drawn once; the option attributes    *)
(* do not exist before set_options.                                        *)
(***************************************************************************)
PrettytableWarning == <<"The prettytable python module is not installed. Disabling the RocketChat callback plugin.">>
WebhookWarning == <<"Slack Webhook URL was not provided. The Slack Webhook URL can be provided using the SLACK_WEBHOOK_URL environment variable.">>
DeliveryWarning(e) == <<"Could not submit message to RocketChat: %s", e>>

Init ==
    /\ HAS_PRETTYTABLE \in BOOLEAN
    /\ disabled = ~HAS_PRETTYTABLE
    /\ warnings = [prettytable |-> IF HAS_PRETTYTABLE THEN 0 ELSE 1,
                   webhook |-> 0, delivery |-> 0]
    /\ lastWarning = IF HAS_PRETTYTABLE THEN <<>> ELSE PrettytableWarning
    /\ playbook_name = None
    /\ guid \in Guids
    /\ webhook_url = Unset
    /\ validate_certs = Unset
    /\ show_invocation = Unset
    /\ nSetOptions = 0
    /\ event = [name |-> None]
    /\ hostLog = <<>>
    /\ sent = <<>>
    /\ attachments = <<>>
    /\ data = None
    /\ posts = 0
    /\ request = [url |-> None, validate_certs |-> None, option |-> None,
                   result |-> None]
    /\ exception = None

(***************************************************************************)
(* set_options.  The host resolves the options; the adapter copies them    *)
(* and disables itself when webhook_url is None.                           *)
(***************************************************************************)
set_options_disabled_never(dis, url) == dis

set_options_disabled_reset(dis, url) == url = None

set_options_disabled(dis, url) == IF url = None THEN TRUE ELSE dis

set_options(url, certs, verbosity) ==
    /\ nSetOptions < MaxSetOptions
    /\ nSetOptions' = nSetOptions + 1
    /\ webhook_url' = url
    /\ show_invocation' = (verbosity > 1)
    /\ validate_certs' = certs
    /\ disabled' = set_options_disabled(disabled, url)
    /\ IF url = None
         THEN /\ warnings' = [warnings EXCEPT !.webhook = @ + 1]
              /\ lastWarning' = WebhookWarning
         ELSE UNCHANGED <<warnings, lastWarning>>
    /\ posts' = 0
    /\ UNCHANGED <<HAS_PRETTYTABLE, guid, playbook_name, event, hostLog,
                   sent, attachments, data, request, exception>>

(***************************************************************************)
(* send_msg.  json.dumps runs before the try block, so what it raises      *)
(* leaves send_msg; open_url and response.read run inside it, so what      *)
(* they raise ends in one warning.  open_url is called with the url, the   *)
(* data and the headers only, so its validate_certs parameter keeps its    *)
(* default.                                                                *)
(***************************************************************************)
json_dumps_results == {"json", "TypeError"}

open_url_results(url) ==
    IF url = HookUrl THEN {"ok", "HTTPError", "URLError"}
                     ELSE {"ValueError"}     \* unknown url type

open_url_validate_certs == TRUE   \* default of the parameter left out

Summary(atts) ==
    [i \in 1..Len(atts) |-> <<atts[i].fallback.head, atts[i].fallback.guid>>]

send_msg_retry(atts) ==
    /\ attachments' = atts
    /\ sent' = Append(sent, Summary(atts))
    /\ \E d \in json_dumps_results :
        /\ data' = d
        /\ IF d # "json"
             THEN /\ exception' = d
                  /\ posts' = 0
                  /\ UNCHANGED <<request, warnings, lastWarning>>
             ELSE \E r \in open_url_results(webhook_url) :
                  /\ posts' = IF r = "ok" THEN 1 ELSE 2
                  /\ request' = [url |-> webhook_url,
                                 validate_certs |-> open_url_validate_certs,
                                 option |-> validate_certs,
                                 result |-> r]
                  /\ exception' = None
                  /\ IF r = "ok"
                       THEN UNCHANGED <<warnings, lastWarning>>
                       ELSE /\ warnings' = [warnings EXCEPT !.delivery = @ + 1]
                            /\ lastWarning' = DeliveryWarning(r)

send_msg(atts) ==
    /\ attachments' = atts
    /\ sent' = Append(sent, Summary(atts))
    /\ \E d \in json_dumps_results :
        /\ data' = d
        /\ IF d # "json"
             THEN /\ exception' = d
                  /\ posts' = 0
                  /\ UNCHANGED <<request, warnings, lastWarning>>
             ELSE \E r \in open_url_results(webhook_url) :
                  /\ posts' = 1
                  /\ request' = [url |-> webhook_url,
                                 validate_certs |-> open_url_validate_certs,
                                 option |-> validate_certs,
                                 result |-> r]
                  /\ exception' = None
                  /\ IF r = "ok"
                       THEN UNCHANGED <<warnings, lastWarning>>
                       ELSE /\ warnings' = [warnings EXCEPT !.delivery = @ + 1]
                            /\ lastWarning' = DeliveryWarning(r)

(***************************************************************************)
(* Helpers of the formatters.  Texts built with % and join are kept as     *)
(* tuples of their parts.  A list option that is None and one that is      *)
(* empty are both falsy and both written <<>>.                             *)
(***************************************************************************)
RECURSIVE Join(_, _)
Join(items, sep) ==
    IF Len(items) = 0 THEN <<>>
    ELSE IF Len(items) = 1 THEN <<items[1]>>
    ELSE <<items[1], sep>> \o Join(Tail(items), sep)

abspath(p) ==
    CASE p = "hosts" -> "/work/hosts"
      [] p = "/etc/ansible/hosts" -> "/etc/ansible/hosts"

basename(p) ==
    CASE p = "site.yml" -> "site.yml"
      [] p = "/plays/deploy.yml" -> "deploy.yml"

TruthyStr(x) == x \notin {None, EmptyStr}
TruthyArgs(args) == DOMAIN args # {}

(***************************************************************************)
(* v2_playbook_on_start                                                    *)
(***************************************************************************)
InvocationItems_tags_all(args) ==
    LET inventory == [i \in 1..Len(args.inventory) |->
                          abspath(args.inventory[i])]
    IN  <<[label |-> "Inventory:  %s", value |-> Join(inventory, ", ")]>>
        \o (IF args.tags # <<>>
              THEN <<[label |-> "Tags:       %s",
                      value |-> Join(args.tags, ", ")]>>
              ELSE <<>>)
        \o (IF args.skip_tags # <<>>
              THEN <<[label |-> "Skip Tags:  %s",
                      value |-> Join(args.skip_tags, ", ")]>>
              ELSE <<>>)
        \o (IF TruthyStr(args.subset)
              THEN <<[label |-> "Limit:      %s", value |-> <<args.subset>>]>>
              ELSE <<>>)
        \o (IF args.extra_vars # <<>>
              THEN <<[label |-> "Extra Vars: %s",
                      value |-> Join(args.extra_vars, " ")]>>
              ELSE <<>>)

InvocationItems(args) ==
    LET inventory == [i \in 1..Len(args.inventory) |->
                          abspath(args.inventory[i])]
    IN  <<[label |-> "Inventory:  %s", value |-> Join(inventory, ", ")]>>
        \o (IF args.tags # <<>> /\ args.tags # <<"all">>
              THEN <<[label |-> "Tags:       %s",
                      value |-> Join(args.tags, ", ")]>>
              ELSE <<>>)
        \o (IF args.skip_tags # <<>>
              THEN <<[label |-> "Skip Tags:  %s",
                      value |-> Join(args.skip_tags, ", ")]>>
              ELSE <<>>)
        \o (IF TruthyStr(args.subset)
              THEN <<[label |-> "Limit:      %s", value |-> <<args.subset>>]>>
              ELSE <<>>)
        \o (IF args.extra_vars # <<>>
              THEN <<[label |-> "Extra Vars: %s",
                      value |-> Join(args.extra_vars, " ")]>>
              ELSE <<>>)

StartMsg(g, name, args, show) ==
    LET shown == TruthyArgs(args) /\ show
    IN  [head |-> "*Playbook initiated*",
         guid |-> g,
         by |-> IF shown THEN <<"by *%s*", args.remote_user>> ELSE <<>>,
         name |-> name,
         block |-> IF shown THEN InvocationItems(args) ELSE <<>>]

MrkdwnIn == <<"text", "fallback", "fields">>

v2_playbook_on_start(playbook, CLIARGS) ==
    /\ playbook_name' = basename(playbook)
    /\ LET msg == StartMsg(guid, playbook_name', CLIARGS, show_invocation)
       IN  send_msg(<<[fallback |-> msg,
                       fields |-> <<[value |-> msg]>>,
                       color |-> "warning",
                       mrkdwn_in |-> MrkdwnIn]>>)

(***************************************************************************)
(* v2_playbook_on_play_start                                               *)
(***************************************************************************)
PlayMsg_noguid(g, play) ==
    [head |-> "*Starting play*",
     guid |-> EmptyStr,
     name |-> IF TruthyStr(play.name)
                THEN <<play.name>>
                ELSE <<"Play name not specified (%s)", play.uuid>>]

PlayMsg(g, play) ==
    [head |-> "*Starting play*",
     guid |-> g,
     name |-> IF TruthyStr(play.name)
                THEN <<play.name>>
                ELSE <<"Play name not specified (%s)", play.uuid>>]

v2_playbook_on_play_start_unnamed(play) ==
    /\ UNCHANGED playbook_name
    /\ LET msg == PlayMsg(guid, play)
       IN  IF TruthyStr(play.name)
             THEN send_msg(<<[fallback |-> msg,
                              text |-> msg,
                              color |-> "warning",
                              mrkdwn_in |-> MrkdwnIn]>>)
             ELSE /\ exception' = None
                  /\ posts' = 0
                  /\ UNCHANGED <<sent, attachments, data, request,
                                 warnings, lastWarning>>

v2_playbook_on_play_start(play) ==
    /\ UNCHANGED playbook_name
    /\ LET msg == PlayMsg(guid, play)
       IN  send_msg(<<[fallback |-> msg,
                       text |-> msg,
                       color |-> "warning",
                       mrkdwn_in |-> MrkdwnIn]>>)

(***************************************************************************)
(* v2_playbook_on_stats.  stats maps each processed host to its summary;   *)
(* of the six counters of a summary the model keeps the two the code       *)
(* tests, the other four only fill table cells.                            *)
(***************************************************************************)
sorted(hosts) == SelectSeq(HostOrder, LAMBDA h : h \in hosts)

RECURSIVE StatsLoop(_, _, _)
StatsLoop(hosts, stats, acc) ==
    IF hosts = <<>> THEN acc
    ELSE LET h == Head(hosts)
             s == stats[h]
         IN  StatsLoop(Tail(hosts), stats,
                 [failures |-> IF s.failures > 0 THEN TRUE ELSE acc.failures,
                  unreachable |-> IF s.unreachable > 0 THEN TRUE
                                                       ELSE acc.unreachable,
                  t |-> Append(acc.t, <<h, s.unreachable, s.failures>>)])

StatsAttachment_failures_only(g, stats) ==
    LET r == StatsLoop(sorted(DOMAIN stats), stats,
                       [failures |-> FALSE, unreachable |-> FALSE, t |-> <<>>])
        bad == r.failures
        msg == [head |-> "*Playbook Complete*",
                guid |-> g,
                status |-> IF bad THEN "\n*Failed!*" ELSE "\n*Success!*",
                table |-> r.t]
    IN  [fallback |-> msg,
         fields |-> <<[value |-> msg]>>,
         color |-> IF bad THEN "danger" ELSE "good",
         mrkdwn_in |-> MrkdwnIn]

StatsAttachment(g, stats) ==
    LET r == StatsLoop(sorted(DOMAIN stats), stats,
                       [failures |-> FALSE, unreachable |-> FALSE, t |-> <<>>])
        bad == r.failures \/ r.unreachable
        msg == [head |-> "*Playbook Complete*",
                guid |-> g,
                status |-> IF bad THEN "\n*Failed!*" ELSE "\n*Success!*",
                table |-> r.t]
    IN  [fallback |-> msg,
         fields |-> <<[value |-> msg]>>,
         color |-> IF bad THEN "danger" ELSE "good",
         mrkdwn_in |-> MrkdwnIn]

v2_playbook_on_stats(stats) ==
    /\ UNCHANGED playbook_name
    /\ IF HAS_PRETTYTABLE
         THEN send_msg(<<StatsAttachment(guid, stats)>>)
         ELSE /\ exception' = "NameError"    \* prettytable is not defined
              /\ posts' = 0
              /\ UNCHANGED <<sent, attachments, data, request,
                             warnings, lastWarning>>

(***************************************************************************)
(* The host.  It resolves the options and calls set_options, and it calls  *)
(* a hook only on a plugin whose disabled attribute is false.              *)
(***************************************************************************)
Verbosities == {0, 2}
Playbooks == {"site.yml", "/plays/deploy.yml"}
NoArgs == <<>>                      \* context.CLIARGS of an empty mapping
CliArgs ==
    {NoArgs} \cup
    [tags : {<<>>, <<"all">>, <<"web">>, <<"all", "web">>},
     skip_tags : {<<>>, <<"slow">>},
     extra_vars : {<<>>, <<"a=1", "b=2">>},
     subset : {None, EmptyStr, "web"},
     inventory : {<<>>, <<"hosts", "/etc/ansible/hosts">>},
     remote_user : {"root"}]
Plays == [name : {None, EmptyStr, "deploy"}, uuid : {"u-1"}]
Stats == UNION {[S -> [unreachable : Counts, failures : Counts]] :
                    S \in SUBSET HostNames}

(* The inputs of the runs of several events: one of each shape. *)
RunVerbosities == {2}
RunPlaybooks == {"site.yml"}
RunCliArgs ==
    {NoArgs,
     [tags |-> <<"web">>, skip_tags |-> <<>>, extra_vars |-> <<>>,
      subset |-> None, inventory |-> <<"hosts">>, remote_user |-> "root"]}
RunPlays == {p \in Plays : p.name # EmptyStr}
RunStats == {s \in Stats : /\ DOMAIN s \subseteq {HostOrder[1]}
                           /\ \A h \in DOMAIN s : s[h].unreachable = 0}

send_callback(name, arg) ==
    /\ configured
    /\ Len(hostLog) < MaxEvents
    /\ event' = [name |-> name, arg |-> arg, skipped |-> disabled]
    /\ hostLog' = Append(hostLog, [name |-> name, skipped |-> disabled])
    /\ UNCHANGED <<HAS_PRETTYTABLE, disabled, guid, webhook_url,
                   validate_certs, show_invocation, nSetOptions>>
    /\ IF disabled
         THEN /\ exception' = None
              /\ posts' = 0
              /\ UNCHANGED <<playbook_name, sent, attachments, data,
                             request, warnings, lastWarning>>
         ELSE CASE name = "v2_playbook_on_start" ->
                       v2_playbook_on_start(arg[1], arg[2])
                [] name = "v2_playbook_on_play_start" ->
                       v2_playbook_on_play_start(arg)
                [] name = "v2_playbook_on_stats" ->
                       v2_playbook_on_stats(arg)

SetOptions ==
    \E url \in Urls, certs \in BOOLEAN, verbosity \in RunVerbosities :
        set_options(url, certs, verbosity)

PlaybookStart ==
    \E playbook \in RunPlaybooks, args \in RunCliArgs :
        send_callback("v2_playbook_on_start", <<playbook, args>>)

PlayStart ==
    \E play \in RunPlays : send_callback("v2_playbook_on_play_start", play)

PlaybookStats ==
    \E stats \in RunStats : send_callback("v2_playbook_on_stats", stats)

Next == SetOptions \/ PlaybookStart \/ PlayStart \/ PlaybookStats

Spec == Init /\ [][Next]_vars

(***************************************************************************)
(* The formatters over all their inputs: a run of one event, drawn from    *)
(* the full input sets.                                                    *)
(***************************************************************************)
FormatStart ==
    /\ hostLog = <<>>
    /\ \E playbook \in Playbooks, args \in CliArgs :
           send_callback("v2_playbook_on_start", <<playbook, args>>)

FormatPlay ==
    /\ hostLog = <<>>
    /\ \E play \in Plays : send_callback("v2_playbook_on_play_start", play)

FormatStats ==
    /\ hostLog = <<>>
    /\ \E stats \in Stats : send_callback("v2_playbook_on_stats", stats)

FormatSetOptions ==
    /\ hostLog = <<>>
    /\ \E url \in Urls, certs \in BOOLEAN, verbosity \in Verbosities :
           set_options(url, certs, verbosity)

FormatNext == FormatSetOptions \/ FormatStart \/ FormatPlay \/ FormatStats

FormatSpec == Init /\ [][FormatNext]_vars

(***************************************************************************)
(* Properties.                                                             *)
(***************************************************************************)
HookNames == {"v2_playbook_on_start", "v2_playbook_on_play_start",
              "v2_playbook_on_stats"}
HeadOf(name) ==
    CASE name = "v2_playbook_on_start" -> "*Playbook initiated*"
      [] name = "v2_playbook_on_play_start" -> "*Starting play*"
      [] name = "v2_playbook_on_stats" -> "*Playbook Complete*"
Ran == SelectSeq(hostLog, LAMBDA c : ~c.skipped)
Skipped == SelectSeq(hostLog, LAMBDA c : c.skipped)
DeliveryErrors == {"HTTPError", "URLError", "ValueError"}

\* C1: while webhook_url is resolved to None, no call the host makes on
\* the adapter (set_options or any of the three hooks, in any order and
\* number) performs an open_url call.
C1_NoPostWhenWebhookUnset ==
    [][(configured /\ webhook_url = None) => posts' = 0]_vars

C1_Witness ==
    /\ configured
    /\ webhook_url = None
    /\ HAS_PRETTYTABLE
    /\ {hostLog[i].name : i \in 1..Len(hostLog)} = HookNames
    /\ Len(Skipped) = 3
    /\ posts = 0

\* C2: a send_msg call whose POST fails makes exactly that one open_url
\* call, logs exactly one warning, which carries the error, and raises
\* nothing to the hook that called it.
C2_FailedPostWarnsOnce ==
    [][(posts' > 0 /\ request'.result # "ok") =>
          /\ posts' = 1
          /\ request'.result \in DeliveryErrors
          /\ warnings' = [warnings EXCEPT !.delivery = @ + 1]
          /\ lastWarning' = DeliveryWarning(request'.result)
          /\ exception' = None]_vars

C2_Witness ==
    /\ posts = 1
    /\ request.result = "HTTPError"
    /\ warnings.delivery = 1
    /\ lastWarning = DeliveryWarning("HTTPError")
    /\ exception = None

\* C3: the send_msg calls are, one for one and in the same order, the hook
\* calls the host made while the adapter was enabled, each with a list of
\* exactly one attachment, whatever became of the earlier deliveries; a
\* hook call on a disabled adapter leaves no send_msg call.
C3_OneDeliveryPerEvent ==
    /\ Len(sent) = Len(Ran)
    /\ \A i \in 1..Len(sent) :
          /\ Len(sent[i]) = 1
          /\ sent[i][1][1] = HeadOf(Ran[i].name)

C3_Witness ==
    /\ Len(sent) = 2
    /\ sent[1][1][1] # sent[2][1][1]
    /\ Len(Skipped) = 1
    /\ warnings.delivery = 1
    /\ request.result = "ok"

\* C4: the attachment of a stats event has color "danger" and the header
\* "Failed!" exactly when some host has failures > 0 or unreachable > 0,
\* and color "good" and the header "Success!" otherwise, also for no hosts.
C4_DangerIffFailedOrUnreachable ==
    (event.name = "v2_playbook_on_stats" /\ ~event.skipped) =>
        LET stats == event.arg
            bad == \E h \in DOMAIN stats :
                       stats[h].failures > 0 \/ stats[h].unreachable > 0
            a == attachments[1]
        IN  /\ Len(attachments) = 1
            /\ bad => a.color = "danger" /\ a.fallback.status = "\n*Failed!*"
            /\ ~bad => a.color = "good" /\ a.fallback.status = "\n*Success!*"

C4_Witness ==
    /\ event.name = "v2_playbook_on_stats"
    /\ ~event.skipped
    /\ DOMAIN event.arg = HostNames
    /\ \A h \in HostNames : event.arg[h].failures = 0
    /\ \E h \in HostNames : event.arg[h].unreachable > 0
    /\ \E h \in HostNames : event.arg[h].unreachable = 0
    /\ attachments[1].color = "danger"

\* C5: no call changes guid, and every message handed to send_msg, of
\* whichever hook, carries the guid of the instance.
C5_GuidFixedAndInEveryMessage ==
    /\ [][guid' = guid]_vars
    /\ [](\A i \in 1..Len(sent) : \A j \in 1..Len(sent[i]) :
              sent[i][j][2] = guid)

C5_Witness ==
    /\ nSetOptions = 2
    /\ Len(sent) = 3
    /\ {sent[i][1][1] : i \in 1..3} = {HeadOf(n) : n \in HookNames}
    /\ \A i \in 1..3 : sent[i][1][2] = guid

\* C6: every open_url call validates certificates exactly when the
\* validate_certs option resolved to true.
C6_ValidateCertsHonored ==
    posts > 0 => request.validate_certs = request.option

\* C7 as stated: a disabled adapter has emitted, in total, a single
\* disablement warning.
DisableWarnings == warnings.prettytable + warnings.webhook

C7_SingleDisableWarning ==
    disabled => DisableWarnings = 1

\* C7 as amended: a missing prettytable or a webhook_url of None disables
\* the adapter, no call clears the disabled flag once it is set, and one
\* disablement warning is emitted per error found: one at construction
\* when prettytable is missing and one by each set_options call that
\* resolves webhook_url to None (two in total when both are missing and
\* set_options is called once).
C7_DisabledForGoodOneWarningPerError ==
    /\ [](warnings.prettytable = IF HAS_PRETTYTABLE THEN 0 ELSE 1)
    /\ [](~configured => warnings.webhook = 0)
    /\ [](~HAS_PRETTYTABLE \/ (configured /\ webhook_url = None) => disabled)
    /\ [][/\ disabled => disabled'
          /\ warnings'.webhook = warnings.webhook +
                 (IF nSetOptions' # nSetOptions /\ webhook_url' = None
                    THEN 1 ELSE 0)]_vars

C7_Witness ==
    /\ ~HAS_PRETTYTABLE
    /\ nSetOptions = 2
    /\ webhook_url = HookUrl
    /\ disabled
    /\ DisableWarnings = 2
    /\ Len(Skipped) = 3

\* C8: a webhook_url resolved to the empty string disables the adapter in
\* set_options, just as one resolved to None does.
C8_EmptyUrlDisables ==
    (configured /\ webhook_url \in {None, EmptyStr}) => disabled

\* C9 as stated: with invocation shown, the block of the run-start message
\* has, in the order Inventory, Tags, Skip Tags, Limit, Extra Vars, the
\* line of each input that is not empty (and, for tags, not ["all"]) and
\* no other line.
LineLabels == <<"Inventory:  %s", "Tags:       %s", "Skip Tags:  %s",
                "Limit:      %s", "Extra Vars: %s">>
InputGiven(label, args) ==
    CASE label = LineLabels[1] -> args.inventory # <<>>
      [] label = LineLabels[2] -> args.tags # <<>> /\ args.tags # <<"all">>
      [] label = LineLabels[3] -> args.skip_tags # <<>>
      [] label = LineLabels[4] -> args.subset \notin {None, EmptyStr}
      [] label = LineLabels[5] -> args.extra_vars # <<>>
Labels(items) == [i \in 1..Len(items) |-> items[i].label]
InvocationShown ==
    /\ event.name = "v2_playbook_on_start"
    /\ ~event.skipped
    /\ show_invocation
    /\ event.arg[2] # NoArgs

C10_SerializationFailureLogged ==
    (data # None /\ data # "json") =>
        /\ exception = None
        /\ lastWarning = DeliveryWarning(data)

====
